---- MODULE Spec2Model ----
(***************************************************************************)
(* A model of the XTEA crate (src/src/lib.rs): the cipher instance, the    *)
(* block transform, and the slice / stream adapters built on it.           *)
(*                                                                         *)
(* A u32 (Wrapping<u32>) is carried as a pair <<hi, lo>> of 16-bit limbs,  *)
(* because the integers of the model checker are narrower than 2^32; every *)
(* operation below is the 32-bit operation taken modulo 2^32.              *)
(***************************************************************************)
EXTENDS Integers, Sequences, FiniteSets, TLC

----------------------------------------------------------------------------
(* 32-bit wrapping arithmetic (std::num::Wrapping<u32>)                     *)

Limb == 256 * 256

U32(hi, lo) == <<hi, lo>>

\* A small natural number as a u32.
ToU32(n) == <<(n \div Limb) % Limb, n % Limb>>

RECURSIVE XorBits(_, _, _)
XorBits(a, b, n) ==
    IF n = 0 THEN 0
    ELSE ((a + b) % 2) + 2 * XorBits(a \div 2, b \div 2, n - 1)

\* The exclusive or of two bytes, tabulated once.
Xor8 == [a \in 0..255 |-> [b \in 0..255 |-> XorBits(a, b, 8)]]

Xor16(a, b) ==
    256 * Xor8[a \div 256][b \div 256] + Xor8[a % 256][b % 256]

\* a ^ b
Xor32(a, b) == <<Xor16(a[1], b[1]), Xor16(a[2], b[2])>>

\* a + b, wrapping
Add32(a, b) ==
    LET lo == a[2] + b[2]
    IN  <<(a[1] + b[1] + (lo \div Limb)) % Limb, lo % Limb>>

\* a - b, wrapping
Sub32(a, b) ==
    LET lo == a[2] - b[2]
        borrow == IF lo < 0 THEN 1 ELSE 0
    IN  <<(a[1] - b[1] - borrow + Limb) % Limb, (lo + Limb) % Limb>>

\* a << 4 (logical, the bits shifted out are lost)
Shl4(a) == <<(a[1] * 16 + (a[2] \div 4096)) % Limb, (a[2] * 16) % Limb>>

\* a >> 5 (logical)
Shr5(a) == <<a[1] \div 32, (a[2] \div 32) + (a[1] % 32) * 2048>>

\* a * b, wrapping: schoolbook product of the limbs, the partial products
\* split by bytes so that none exceeds 2^24.
MulLimb(x, y) ==
    LET p0 == x * (y % 256)
        p1 == x * (y \div 256)
        lo == p0 + (p1 % 256) * 256
    IN  <<((p1 \div 256) + (lo \div Limb)) % Limb, lo % Limb>>

Mul32(a, b) ==
    LET ll == MulLimb(a[2], b[2])
        hl == MulLimb(a[1], b[2])
        lh == MulLimb(a[2], b[1])
    IN  <<(ll[1] + hl[2] + lh[2]) % Limb, ll[2]>>

----------------------------------------------------------------------------
(* The cipher                                                               *)

DEFAULT_ROUNDS == 32

\* 0x9E3779B9
DELTA == <<40503, 31161>>

\* key[(sum & 3)]
KeyLow(key, sum) == key[(sum[2] % 4) + 1]

\* key[((sum >> 11) & 3)]
KeyHigh(key, sum) == key[((sum[2] \div 2048) % 4) + 1]

\* (((v << 4) ^ (v >> 5)) + v) ^ (sum + k)
Mix(v, sum, k) ==
    Xor32(Add32(Xor32(Shl4(v), Shr5(v)), v), Add32(sum, k))

\* One iteration of the loop of encipher, on <<v0, v1, sum, i>>
\* (i: the iterations done).
EncipherRound(key, st) ==
    LET v0 == Add32(st[1], Mix(st[2], st[3], KeyLow(key, st[3])))
        sum == Add32(st[3], DELTA)
        v1 == Add32(st[2], Mix(v0, sum, KeyHigh(key, sum)))
    IN  <<v0, v1, sum, st[4] + 1>>

\* for _ in 0..n { ... }
RECURSIVE EncipherLoop(_, _, _)
EncipherLoop(key, n, st) ==
    IF st[4] >= n THEN st ELSE EncipherLoop(key, n, EncipherRound(key, st))

encipher(self, input) ==
    LET st == EncipherLoop(self.key, self.num_rounds,
                           <<input[1], input[2], ToU32(0), 0>>)
    IN  <<st[1], st[2]>>

\* Fault variant of DecipherRound: sum is decremented before v1 is updated
\* instead of after.
DecipherRoundEarlySum(key, st) ==
    LET sum == Sub32(st[3], DELTA)
        v1 == Sub32(st[2], Mix(st[1], sum, KeyHigh(key, sum)))
        v0 == Sub32(st[1], Mix(v1, sum, KeyLow(key, sum)))
    IN  <<v0, v1, sum, st[4] + 1>>

\* One iteration of the loop of decipher, on <<v0, v1, sum, i>>.
DecipherRound(key, st) ==
    LET v1 == Sub32(st[2], Mix(st[1], st[3], KeyHigh(key, st[3])))
        sum == Sub32(st[3], DELTA)
        v0 == Sub32(st[1], Mix(v1, sum, KeyLow(key, sum)))
    IN  <<v0, v1, sum, st[4] + 1>>

RECURSIVE DecipherLoop(_, _, _)
DecipherLoop(key, n, st) ==
    IF st[4] >= n THEN st ELSE DecipherLoop(key, n, DecipherRound(key, st))

decipher(self, input) ==
    LET st == DecipherLoop(self.key, self.num_rounds,
                           <<input[1], input[2],
                             Mul32(DELTA, ToU32(self.num_rounds)), 0>>)
    IN  <<st[1], st[2]>>

\* Fault variant of CipherBlock: the direction is ignored.
CipherBlockOneWay(self, flag, buf) == encipher(self, buf)

\* if encipher { self.encipher(..) } else { self.decipher(..) }
CipherBlock(self, flag, buf) ==
    IF flag THEN encipher(self, buf) ELSE decipher(self, buf)

----------------------------------------------------------------------------
(* Byte order (byteorder::ByteOrder): 4 bytes <-> u32                       *)

Orders == {"BE", "LE"}

\* read_u32::<B>: the word of 4 bytes
DecodeU32(B, b) ==
    IF B = "BE" THEN U32(b[1] * 256 + b[2], b[3] * 256 + b[4])
    ELSE U32(b[4] * 256 + b[3], b[2] * 256 + b[1])

\* Fault variant of EncodeU32: the byte order is ignored.
EncodeU32BigEndian(B, w) ==
    <<w[1] \div 256, w[1] % 256, w[2] \div 256, w[2] % 256>>

\* write_u32::<B>: the 4 bytes of a word
EncodeU32(B, w) ==
    IF B = "BE"
    THEN <<w[1] \div 256, w[1] % 256, w[2] \div 256, w[2] % 256>>
    ELSE <<w[2] % 256, w[2] \div 256, w[1] % 256, w[1] \div 256>>

----------------------------------------------------------------------------
(* Inputs of the model                                                      *)

\* The longest source, in bytes.
MaxLen == 17

\* The largest round count given to new_with_rounds.
MaxRounds == 4

Word0 == U32(0, 0)
WordMax == U32(65535, 65535)

\* [0; 4], [0xffffffff; 4] and the key of the tests u8_slice, boxed_slice
Keys ==
    { <<Word0, Word0, Word0, Word0>>,
      <<WordMax, WordMax, WordMax, WordMax>>,
      <<U32(4992, 50613), U32(10243, 32249), U32(9955, 5282),
        U32(50550, 34020)>> }

\* Blocks given to encipher / decipher; the first is that of tests::overflow.
SampleBlocks ==
    { <<ToU32(1234), ToU32(5678)>>, <<Word0, Word0>>, <<WordMax, WordMax>>,
      <<U32(32768, 0), U32(32767, 65535)>> }

\* "Hello. P", the first block of the input of tests::u8_slice
BlockX == <<72, 101, 108, 108, 111, 46, 32, 80>>
BlockY == <<255, 255, 255, 255, 255, 255, 255, 255>>
\* the block of tests::boxed_slice
BlockZ == <<10, 10, 10, 10, 10, 10, 10, 10>>

\* Two byte streams: the first repeats a block, the second differs from the
\* first in its second block only.
Bases == { BlockX \o BlockX \o BlockZ, BlockX \o BlockY \o BlockZ }

Sources == { SubSeq(b, 1, n) : b \in Bases, n \in 0..MaxLen }

\* vec![0u8; n]
Zeros(n) == [i \in 1..n |-> 0]

\* The lengths of the output buffers handed to the slice calls with an input
\* of n bytes: the same length, and lengths that differ from it.
OutLens(n) == ({n, n + 1, n + 8} \cap (0..MaxLen)) \cup {0, 8}

----------------------------------------------------------------------------
(* State                                                                    *)

VARIABLES
    xtea,           \* the instance constructed, if any: a set of 0 or 1 XTEA
    ctor,           \* the arguments of the constructor call made, if any
    panic,          \* "" or the assertion / unwrap that panicked
    call,           \* the operation called last
    encipher_flag,  \* cipher_stream's parameter encipher
    order,          \* the type parameter B
    input,          \* the bytes of the source (the input slice)
    in_pos,         \* the read position of the source
    output,         \* the bytes of the sink (the output slice)
    out_pos,        \* the write position of the sink
    input_buf,      \* [u32; 2] (the argument input of encipher / decipher)
    output_buf,     \* [u32; 2] (the argument output of encipher / decipher)
    pc,             \* the position in cipher_stream
    result,         \* what cipher_stream returned
    orig,           \* the plain text behind the input of a decipher call
    io_err,         \* the failure the source or the sink reported, if any
    reads,          \* the read_u32 calls made
    writes,         \* the write_u32 calls made
    wcount          \* how often each byte of the sink has been written

vars == <<xtea, ctor, panic, call, encipher_flag, order, input, in_pos, output,
          out_pos, input_buf, output_buf, pc, result, orig, io_err, reads,
          writes, wcount>>

instance_vars == <<xtea, ctor>>
call_vars == <<call, encipher_flag, order, input, in_pos, output, out_pos,
               input_buf, output_buf, pc, result, orig, io_err, reads, writes,
               wcount>>

self == CHOOSE x \in xtea : TRUE

SliceCalls == {"encipher_u8slice", "decipher_u8slice"}
StreamCalls == {"encipher_stream", "decipher_stream"}

Init ==
    /\ xtea = {}
    /\ ctor = {}
    /\ panic = ""
    /\ call = "none"
    /\ encipher_flag = TRUE
    /\ order = "BE"
    /\ input = <<>>
    /\ in_pos = 0
    /\ output = <<>>
    /\ out_pos = 0
    /\ input_buf = <<Word0, Word0>>
    /\ output_buf = <<Word0, Word0>>
    /\ pc = "idle"
    /\ result = "none"
    /\ orig = {}
    /\ io_err = {}
    /\ reads = 0
    /\ writes = 0
    /\ wcount = <<>>

----------------------------------------------------------------------------
(* Construction                                                             *)

\* Fault variant of RoundsOk: the assertion is missing.
RoundsOkUnchecked(num_rounds) == TRUE

\* assert_eq!(num_rounds & 1, 0, ..)
RoundsOk(num_rounds) == num_rounds % 2 = 0

new_with_rounds(fn, key, num_rounds) ==
    /\ ctor' = {[fn |-> fn, key |-> key, num_rounds |-> num_rounds]}
    /\ IF RoundsOk(num_rounds)
       THEN /\ xtea' = {[key |-> key, num_rounds |-> num_rounds]}
            /\ panic' = ""
       ELSE /\ xtea' = {}
            /\ panic' = "num_rounds"
    /\ UNCHANGED call_vars

\* No instance has been constructed yet.
Unbuilt == xtea = {} /\ ctor = {} /\ panic = ""

\* Self::new_with_rounds(key, DEFAULT_ROUNDS)
New ==
    \E key \in Keys :
        /\ Unbuilt
        /\ new_with_rounds("new", key, DEFAULT_ROUNDS)

NewWithRounds ==
    \E key \in Keys, num_rounds \in 0..MaxRounds :
        /\ Unbuilt
        /\ new_with_rounds("new_with_rounds", key, num_rounds)

----------------------------------------------------------------------------
(* The block calls                                                          *)

\* A first call can be made on the instance: there is one, and no panic has
\* unwound the thread. A behaviour is one use of the instance, as in the
\* tests: a call, and then the decipher call on what the call has put out;
\* calls share nothing but the instance.
Ready == xtea # {} /\ panic = "" /\ pc = "idle" /\ call = "none"

NoStream ==
    /\ input' = <<>> /\ in_pos' = 0 /\ output' = <<>> /\ out_pos' = 0
    /\ pc' = "idle" /\ result' = "none" /\ io_err' = {}
    /\ reads' = 0 /\ writes' = 0 /\ wcount' = <<>>
    /\ encipher_flag' = TRUE /\ order' = "BE"

Encipher ==
    \E inp \in SampleBlocks :
        /\ Ready
        /\ call' = "encipher"
        /\ input_buf' = inp
        /\ output_buf' = encipher(self, inp)
        /\ orig' = {}
        /\ NoStream
        /\ UNCHANGED <<xtea, ctor, panic>>

\* What encipher has just put out, if it has.
EncipheredBlock == IF call = "encipher" /\ panic = "" THEN {output_buf} ELSE {}

\* decipher is given a sample block, or what encipher has just put out.
Decipher ==
    \E inp \in (IF Ready THEN SampleBlocks ELSE {}) \cup EncipheredBlock :
        /\ call' = "decipher"
        /\ input_buf' = inp
        /\ output_buf' = decipher(self, inp)
        /\ orig' = IF inp \in EncipheredBlock
                   THEN {[block |-> input_buf, bytes |-> <<>>, order |-> "BE"]}
                   ELSE {}
        /\ NoStream
        /\ UNCHANGED <<xtea, ctor, panic>>

----------------------------------------------------------------------------
(* The slice and stream calls, up to the head of cipher_stream's loop       *)

\* assert_eq!(input.len(), output.len(), ..)
LengthsOk(inp, out) == Len(inp) = Len(out)

\* Fault variant of AlignedOk: whole words are asked for, not whole blocks.
AlignedOkWords(inp) == Len(inp) % 4 = 0

\* assert_eq!(input.len() % 8, 0, ..)
AlignedOk(inp) == Len(inp) % 8 = 0

\* The entry of cipher_stream: the two buffers, then the loop.
Enter(name, inp, out, B, flag, plain) ==
    /\ call' = name /\ encipher_flag' = flag /\ order' = B
    /\ input' = inp /\ in_pos' = 0
    /\ output' = out /\ out_pos' = 0
    /\ input_buf' = <<Word0, Word0>> /\ output_buf' = <<Word0, Word0>>
    /\ result' = "none" /\ io_err' = {} /\ reads' = 0 /\ writes' = 0
    /\ wcount' = Zeros(Len(out))
    /\ orig' = plain

cipher_u8slice(name, inp, out, B, flag, plain) ==
    /\ Enter(name, inp, out, B, flag, plain)
    /\ IF ~LengthsOk(inp, out)
       THEN panic' = "len_eq" /\ pc' = "idle"
       ELSE IF ~AlignedOk(inp)
            THEN panic' = "len_mod8" /\ pc' = "idle"
            ELSE panic' = "" /\ pc' = "read0"
    /\ UNCHANGED instance_vars

EncipherU8Slice ==
    \E inp \in Sources, B \in Orders :
        \E n \in OutLens(Len(inp)) :
            /\ Ready
            /\ cipher_u8slice("encipher_u8slice", inp, Zeros(n), B, TRUE, {})

\* What encipher_u8slice has just put out, if it has.
Encrypted ==
    IF call = "encipher_u8slice" /\ pc = "done" /\ panic = ""
    THEN {output} ELSE {}

\* decipher_u8slice is given a sample input, or what encipher_u8slice has
\* just put out.
DecipherU8Slice ==
    \E inp \in (IF Ready THEN Sources ELSE {}) \cup Encrypted, B \in Orders :
        \E n \in OutLens(Len(inp)) :
            cipher_u8slice("decipher_u8slice", inp, Zeros(n), B, FALSE,
                IF inp \in Encrypted
                THEN {[block |-> <<Word0, Word0>>, bytes |-> input,
                       order |-> order]}
                ELSE {})

\* The sink of a stream call is a Vec<u8>, empty at first.
cipher_stream(name, inp, B, flag) ==
    /\ Enter(name, inp, <<>>, B, flag, {})
    /\ panic' = "" /\ pc' = "read0"
    /\ UNCHANGED instance_vars

EncipherStream ==
    \E inp \in Sources, B \in Orders :
        /\ Ready
        /\ cipher_stream("encipher_stream", inp, B, TRUE)

DecipherStream ==
    \E inp \in Sources, B \in Orders :
        /\ Ready
        /\ cipher_stream("decipher_stream", inp, B, FALSE)

----------------------------------------------------------------------------
(* The source and the sink                                                  *)

Min(a, b) == IF a < b THEN a ELSE b
Max(a, b) == IF a > b THEN a ELSE b

\* A stream call reads a Read and writes a Write that may fail at any call;
\* a slice call reads and writes Cursors, which fail only at their end.
ReadFaults == IF call \in StreamCalls THEN {FALSE, TRUE} ELSE {FALSE}

\* Fault variant of SourceHas: off by one at the end of the source.
SourceHasStrict(inp, pos) == Len(inp) - pos > 4

\* Whether 4 more bytes can be read (read_exact of 4 bytes).
SourceHas(inp, pos) == Len(inp) - pos >= 4

\* input.read_u32::<B>(): the word read, or the failure; a read that meets
\* the end of the source has consumed what was left of it.
SourceRead(fault) ==
    IF fault
    THEN [kind |-> "ReadIo", val |-> Word0, pos |-> in_pos]
    ELSE IF SourceHas(input, in_pos)
         THEN [kind |-> "Ok",
               val |-> DecodeU32(order, SubSeq(input, in_pos + 1, in_pos + 4)),
               pos |-> in_pos + 4]
         ELSE [kind |-> "UnexpectedEof", val |-> Word0, pos |-> Len(input)]

\* The bytes of a word that the sink accepts: a Vec all 4, unless the Write
\* fails after 0..3 of them; a Cursor over a slice what room it has left.
SinkAccepts ==
    IF call \in StreamCalls THEN 0..4
    ELSE {Max(0, Min(4, Len(output) - out_pos))}

\* `out` with the bytes bs written at position pos.
PutBytes(out, pos, bs) ==
    [i \in 1..Max(Len(out), pos + Len(bs)) |->
        IF i > pos /\ i <= pos + Len(bs) THEN bs[i - pos] ELSE out[i]]

\* The write counts after a write of n bytes at position pos.
Counted(cnt, pos, n) ==
    [i \in 1..Max(Len(cnt), pos + n) |->
        IF i > pos /\ i <= pos + n
        THEN (IF i <= Len(cnt) THEN cnt[i] ELSE 0) + 1
        ELSE cnt[i]]

\* output.write_u32::<B>(w), the sink accepting n of the 4 bytes.
SinkWrite(w, n) ==
    [kind |-> IF n = 4 THEN "Ok"
              ELSE IF call \in StreamCalls THEN "WriteIo" ELSE "WriteZero",
     out |-> PutBytes(output, out_pos, SubSeq(EncodeU32(order, w), 1, n)),
     pos |-> out_pos + n,
     cnt |-> Counted(wcount, out_pos, n)]

----------------------------------------------------------------------------
(* The loop of cipher_stream                                                *)

\* match .. { Ok(val) => val, Err(_) => break } and the Ok(()) after the loop
BreakOnErr(kind, next) ==
    IF kind = "Ok" THEN [pc |-> next, result |-> "none"]
    ELSE [pc |-> "done", result |-> "Ok"]

\* Fault variant of Question: the failure ends the loop, as at the first
\* read, and Ok(()) is returned.
QuestionBreak(kind, next) == BreakOnErr(kind, next)

\* The operator ? : the failure is returned at once.
Question(kind, next) ==
    IF kind = "Ok" THEN [pc |-> next, result |-> "none"]
    ELSE [pc |-> "done", result |-> kind]

\* What follows each of the four calls on the source and the sink.
ReadFirstCtl(kind) == BreakOnErr(kind, "read1")

\* Fault variant of ReadSecondCtl: the word is defaulted when the read fails
\* (unwrap_or_default in place of ?), and the loop goes on.
ReadSecondCtlDefault(kind) == [pc |-> "cipher", result |-> "none"]

ReadSecondCtl(kind) == Question(kind, "cipher")

\* Fault variant of WriteFirstCtl: the result of the first write is dropped.
WriteFirstCtlDropped(kind) == [pc |-> "write1", result |-> "none"]

WriteFirstCtl(kind) == Question(kind, "write1")

WriteSecondCtl(kind) == Question(kind, "read0")

\* .unwrap() of cipher_u8slice on what cipher_stream returned
Unwrap(res) ==
    IF call \in SliceCalls /\ res # "Ok" THEN "unwrap" ELSE ""

\* The control after a step: on, or out of cipher_stream (and, in a slice
\* call, through the unwrap).
Goto(c) ==
    /\ pc' = c.pc
    /\ result' = c.result
    /\ panic' = IF c.pc = "done" THEN Unwrap(c.result) ELSE ""

\* The failure of a read or write, with the calls made up to it.
Failed(at, kind, r, w) ==
    IF kind = "Ok" THEN io_err
    ELSE {[at |-> at, kind |-> kind, reads |-> r, writes |-> w]}

\* input_buf[0] = match input.read_u32::<B>() { .. }
ReadFirst ==
    \E fault \in ReadFaults :
        LET r == SourceRead(fault) IN
        /\ panic = "" /\ pc = "read0"
        /\ reads' = reads + 1
        /\ in_pos' = r.pos
        /\ input_buf' = IF r.kind = "Ok" THEN <<r.val, input_buf[2]>>
                        ELSE input_buf
        /\ io_err' = Failed("read0", r.kind, reads + 1, writes)
        /\ Goto(ReadFirstCtl(r.kind))
        /\ UNCHANGED <<xtea, ctor, call, encipher_flag, order, input, output,
                       out_pos, output_buf, orig, writes, wcount>>

\* input_buf[1] = input.read_u32::<B>()?;
ReadSecond ==
    \E fault \in ReadFaults :
        LET r == SourceRead(fault) IN
        /\ panic = "" /\ pc = "read1"
        /\ reads' = reads + 1
        /\ in_pos' = r.pos
        /\ input_buf' = IF r.kind = "Ok" THEN <<input_buf[1], r.val>>
                        ELSE input_buf
        /\ io_err' = Failed("read1", r.kind, reads + 1, writes)
        /\ Goto(ReadSecondCtl(r.kind))
        /\ UNCHANGED <<xtea, ctor, call, encipher_flag, order, input, output,
                       out_pos, output_buf, orig, writes, wcount>>

\* if encipher { self.encipher(..) } else { self.decipher(..) }
Transform ==
    /\ panic = "" /\ pc = "cipher"
    /\ output_buf' = CipherBlock(self, encipher_flag, input_buf)
    /\ pc' = "write0"
    /\ UNCHANGED <<xtea, ctor, panic, call, encipher_flag, order, input,
                   in_pos, output, out_pos, input_buf, result, orig, io_err,
                   reads, writes, wcount>>

\* output.write_u32::<B>(output_buf[0])?;
WriteFirst ==
    \E n \in SinkAccepts :
        LET w == SinkWrite(output_buf[1], n) IN
        /\ panic = "" /\ pc = "write0"
        /\ writes' = writes + 1
        /\ output' = w.out
        /\ out_pos' = w.pos
        /\ wcount' = w.cnt
        /\ io_err' = Failed("write0", w.kind, reads, writes + 1)
        /\ Goto(WriteFirstCtl(w.kind))
        /\ UNCHANGED <<xtea, ctor, call, encipher_flag, order, input, in_pos,
                       input_buf, output_buf, orig, reads>>

\* output.write_u32::<B>(output_buf[1])?;
WriteSecond ==
    \E n \in SinkAccepts :
        LET w == SinkWrite(output_buf[2], n) IN
        /\ panic = "" /\ pc = "write1"
        /\ writes' = writes + 1
        /\ output' = w.out
        /\ out_pos' = w.pos
        /\ wcount' = w.cnt
        /\ io_err' = Failed("write1", w.kind, reads, writes + 1)
        /\ Goto(WriteSecondCtl(w.kind))
        /\ UNCHANGED <<xtea, ctor, call, encipher_flag, order, input, in_pos,
                       input_buf, output_buf, orig, reads>>

----------------------------------------------------------------------------

Next ==
    \/ New
    \/ NewWithRounds
    \/ Encipher
    \/ Decipher
    \/ EncipherU8Slice
    \/ DecipherU8Slice
    \/ EncipherStream
    \/ DecipherStream
    \/ ReadFirst
    \/ ReadSecond
    \/ Transform
    \/ WriteFirst
    \/ WriteSecond

Spec == Init /\ [][Next]_vars

----------------------------------------------------------------------------
(* What the calls are expected to produce                                   *)

\* The image of one 8-byte block: decoded, transformed, encoded.
BlockImage(x, B, flag, blk) ==
    LET w == <<DecodeU32(B, SubSeq(blk, 1, 4)), DecodeU32(B, SubSeq(blk, 5, 8))>>
        c == IF flag THEN encipher(x, w) ELSE decipher(x, w)
    IN  EncodeU32(B, c[1]) \o EncodeU32(B, c[2])

\* The first k blocks of the sink are the images of the first k blocks of
\* the source, each of its own block.
BlocksDone(k) ==
    /\ Len(output) >= 8 * k
    /\ \A i \in 1..k :
          SubSeq(output, 8 * i - 7, 8 * i)
              = BlockImage(self, order, encipher_flag,
                           SubSeq(input, 8 * i - 7, 8 * i))

AllOnesKey == <<WordMax, WordMax, WordMax, WordMax>>

----------------------------------------------------------------------------
(* The claims                                                               *)

\* C1: decipher applied to the output of encipher, under the same instance,
\* returns the block that was enciphered, for every key, round count and
\* block, all arithmetic being modulo 2^32.
C1_BlockRoundTrip ==
    \A o \in orig : call = "decipher" => output_buf = o.block

\* C1 happens: the block (1234, 5678) of tests::overflow, under the all-ones
\* key and 32 rounds, has been enciphered to another block and recovered.
C1_Witness ==
    /\ call = "decipher" /\ orig # {}
    /\ self.key = AllOnesKey /\ self.num_rounds = DEFAULT_ROUNDS
    /\ output_buf = <<ToU32(1234), ToU32(5678)>>
    /\ input_buf # output_buf

\* C2 (the states): an odd round count panics and leaves no instance, an
\* even one yields the instance of that key and round count, new uses 32
\* rounds, and every instance has an even round count.
C2_Constructed ==
    /\ \A x \in xtea : x.num_rounds % 2 = 0
    /\ \A c \in ctor :
          /\ c.num_rounds % 2 = 1 => xtea = {} /\ panic = "num_rounds"
          /\ c.num_rounds % 2 = 0 =>
                xtea = {[key |-> c.key, num_rounds |-> c.num_rounds]}
          /\ c.fn = "new" => c.num_rounds = 32 /\ xtea # {}

\* C2: construction enforces an even round count, and no operation ever
\* changes the key or the round count of an instance.
C2_EvenRoundsImmutable ==
    [](C2_Constructed) /\ [][xtea # {} => xtea' = xtea]_vars

\* C2 happens: new_with_rounds was called with 3 rounds and panicked.
C2_Witness ==
    /\ panic = "num_rounds" /\ xtea = {}
    /\ \E c \in ctor : c.fn = "new_with_rounds" /\ c.num_rounds = 3

\* C3: a slice call whose buffers differ in length, or whose length is no
\* multiple of 8, panics on the assertion, before any block is read,
\* transformed or written: the output buffer is unchanged.
C3_SlicePreconditions ==
    (call \in SliceCalls
        /\ (Len(input) # Len(output) \/ Len(input) % 8 # 0))
    => /\ panic \in {"len_eq", "len_mod8"}
       /\ pc = "idle" /\ result = "none"
       /\ reads = 0 /\ writes = 0 /\ in_pos = 0 /\ out_pos = 0
       /\ output_buf = <<Word0, Word0>>
       /\ output = Zeros(Len(output))
       /\ wcount = Zeros(Len(output))

\* C3 happens: encipher_u8slice was called with buffers of 15 bytes.
C3_Witness ==
    /\ call = "encipher_u8slice" /\ Len(input) = 15 /\ Len(output) = 15
    /\ panic = "len_mod8"

\* C4: decipher_u8slice applied to the output of encipher_u8slice, with the
\* same instance and the same byte order, reproduces the original bytes.
C4_SliceRoundTrip ==
    \A o \in orig :
        (call = "decipher_u8slice" /\ pc = "done" /\ order = o.order)
        => panic = "" /\ result = "Ok" /\ output = o.bytes

\* C4 happens: 16 bytes were enciphered in little-endian order to other
\* bytes, and deciphered.
C4_Witness ==
    /\ call = "decipher_u8slice" /\ pc = "done" /\ order = "LE"
    /\ \E o \in orig : o.order = "LE" /\ Len(o.bytes) = 16 /\ o.bytes # input
    /\ self.num_rounds = DEFAULT_ROUNDS

\* C5: a stream call whose source ends inside a block (its length is no
\* multiple of 8) returns an Err.
C5_TruncatedIsError ==
    (call \in StreamCalls /\ pc = "done" /\ Len(input) % 8 # 0
        /\ \A e \in io_err : e.kind = "UnexpectedEof")
    => result # "Ok"

\* C6: when the second read of a pair fails, cipher_stream returns that
\* failure, and the sink holds exactly the images of the blocks completed
\* before it; a source that ends there has 8k+4 .. 8k+7 bytes.
C6_MidBlockTruncation ==
    \A e \in io_err :
        e.at = "read1" =>
            LET k == (e.reads \div 2) - 1 IN
            /\ pc = "done" /\ result = e.kind /\ result # "Ok"
            /\ reads = e.reads /\ writes = 2 * k
            /\ Len(output) = 8 * k /\ BlocksDone(k)
            /\ e.kind = "UnexpectedEof" =>
                  k = Len(input) \div 8 /\ Len(input) % 8 >= 4

\* C6 happens: a source of 12 bytes, one block in the sink, the error
\* returned.
C6_Witness ==
    /\ call = "encipher_stream" /\ Len(input) = 12
    /\ pc = "done" /\ result = "UnexpectedEof" /\ Len(output) = 8
    /\ \E e \in io_err : e.at = "read1"

\* C7: a failed write of either word makes cipher_stream return that failure
\* at once: no read and no write follows it (the second word is not written
\* after the first failed), and the earlier blocks stay in the sink.
C7_WriteFailure ==
    \A e \in io_err :
        e.at \in {"write0", "write1"} =>
            LET k == (e.writes - 1) \div 2 IN
            /\ pc = "done" /\ result = e.kind /\ result # "Ok"
            /\ reads = e.reads /\ writes = e.writes
            /\ reads = 2 * (k + 1)
            /\ e.at = "write0" <=> writes = 2 * k + 1
            /\ Len(output) < 4 * writes
            /\ BlocksDone(k)

\* C7 happens: the first write of the second block failed after 2 bytes.
C7_Witness ==
    /\ call \in StreamCalls /\ pc = "done" /\ result = "WriteIo"
    /\ Len(output) = 10
    /\ \E e \in io_err : e.at = "write0" /\ e.writes = 3

\* C8: for a source of n whole blocks that delivers them and a sink that
\* takes them, the call returns Ok having written 8n bytes, block i of the
\* output being the image of block i of the input alone.
C8_Blockwise ==
    (call \in StreamCalls \cup SliceCalls /\ pc = "done"
        /\ Len(input) % 8 = 0
        /\ \A e \in io_err : e.at = "read0" /\ e.kind = "UnexpectedEof")
    => /\ result = "Ok"
       /\ Len(output) = Len(input)
       /\ writes = Len(input) \div 4
       /\ BlocksDone(Len(input) \div 8)

\* C8 happens: a stream of 16 bytes has been deciphered to 16 other bytes.
C8_Witness ==
    /\ call = "decipher_stream" /\ pc = "done" /\ result = "Ok"
    /\ Len(input) = 16 /\ Len(output) = 16 /\ output # input

\* C9 as stated: every I/O error of the source, at the first or the second
\* read of a pair, makes cipher_stream return it.
C9_ReadErrorsPropagated ==
    \A e \in io_err : e.kind = "ReadIo" => pc = "done" /\ result = "ReadIo"

\* C9 as amended: an I/O error of the source at the second read of a pair
\* makes cipher_stream return it; one at the first read of a pair ends the
\* loop, and cipher_stream returns Ok(()).
C9_SecondReadErrorsPropagated ==
    \A e \in io_err :
        e.kind = "ReadIo" =>
            /\ pc = "done"
            /\ e.at \in {"read0", "read1"}
            /\ e.at = "read1" => result = "ReadIo"
            /\ e.at = "read0" => result = "Ok"

\* C9 happens: the source failed at the second read of the second pair.
C9_Witness ==
    /\ call \in StreamCalls /\ result = "ReadIo"
    /\ \E e \in io_err : e.kind = "ReadIo" /\ e.at = "read1" /\ e.reads = 4

\* C10: in a slice call whose buffers have one length, a multiple of 8, the
\* two cursors agree at every loop head, on a block boundary; no write runs
\* past the end, only the first read of a pair fails, at the end of the
\* input; cipher_stream returns Ok(()), the unwrap does not panic, and every
\* byte of the output has been written once.
C10_SliceNeverFails ==
    (call \in SliceCalls /\ Len(input) = Len(output) /\ Len(input) % 8 = 0)
    => /\ panic = ""
       /\ pc # "idle"
       /\ pc = "read0" => in_pos = out_pos /\ in_pos % 8 = 0
       /\ out_pos <= Len(output)
       /\ \A i \in 1..Len(wcount) : wcount[i] <= 1
       /\ \A e \in io_err :
             /\ e.at = "read0" /\ e.kind = "UnexpectedEof"
             /\ e.reads = (Len(input) \div 4) + 1
       /\ pc = "done" =>
             /\ result = "Ok" /\ io_err # {}
             /\ wcount = [i \in 1..Len(output) |-> 1]

\* C10 happens: a slice call on 16 bytes has returned.
C10_Witness ==
    /\ call \in SliceCalls /\ pc = "done" /\ result = "Ok"
    /\ Len(input) = 16 /\ Len(output) = 16
    /\ wcount = [i \in 1..16 |-> 1]

====
